---- MODULE Spec2Model ----
(***************************************************************************)
(* A model of the RAG pipeline of tbmahfudi/RAG:                           *)
(*   - ChatService (backend/app/services/chat_service.py): format_sources, *)
(*     generate_response and the SSE generator stream_response;            *)
(*   - the Segmenter (backend/app/utils/text_splitter.py):                 *)
(*     split_text_into_chunks and its inner split_recursive.               *)
(* Python strings that are measured, sliced or concatenated are sequences  *)
(* of one-character strings; an Optional[str] is a sequence of length 0    *)
(* (None) or 1 (the value).                                                *)
(***************************************************************************)
EXTENDS Integers, Sequences, FiniteSets, TLC

VARIABLES
    \* ---- inputs of one chat request (both handlers are run on them)
    conversation_id,  \* Optional[str]: <<>> is None, <<s>> the supplied string
    retrieval,        \* outcome of search_similar_chunks: [ok, chunks]
    fragments,        \* delta.content of each chunk of the generator's stream
    gen_fail,         \* "none" | "create" | "mid": how the remote generator fails
    fail_after,       \* for "mid": fragments delivered before the stream raises
    uuid_next,        \* number of identifiers uuid.uuid4() has handed out
    \* ---- generate_response
    g_pc,             \* "called" | "returned" | "raised"
    g_conv_id,        \* conv_id local
    g_calls,          \* chat.completions.create calls made
    g_response,       \* <<>> or <<ChatResponse>>
    \* ---- stream_response
    s_pc,             \* position of the generator
    s_conv_id,        \* conv_id local
    s_calls,          \* chat.completions.create calls made
    s_pos,            \* fragments consumed from the remote stream
    s_token,          \* token local
    s_err,            \* str(e) of the exception being handled
    s_out,            \* every string yielded so far, in order
    \* ---- format_sources, called on its own
    f_chunks,         \* chunks argument
    f_pc,             \* "called" | "returned" | "idle"
    f_sources,        \* the returned list
    \* ---- split_text_into_chunks
    t_text,           \* text argument
    t_size,           \* chunk_size argument
    t_overlap,        \* chunk_overlap argument
    t_pc,             \* "called" | "returned" | "idle"
    t_initial,        \* initial_chunks local (the un-overlapped cores)
    t_chunks,         \* the returned list
    t_depth,          \* deepest nesting of split_recursive calls during the call
    \* ---- the collection, and the requests that use it
    store,            \* the collection's records, in insertion order
    u_files,          \* per upload request: files argument of process_multiple_documents
    u_pc,             \* per upload request: "next_file" | "read" | "embed" | "add" | "returned" | "idle"
    u_done,           \* per upload request: files the loop has finished with
    u_doc,            \* per upload request: document_id, filename, file_ext and, once read, file_size of the current file
    u_chunk_data,     \* per upload request: chunk_data of the file being indexed
    u_batch,          \* per upload request: chunk_ids, chunk_texts, chunk_embeddings, chunk_metadatas so far
    u_embed_calls,    \* per upload request: generate_embedding calls of the running add_document_chunks
    u_results,        \* per upload request: results local
    u_success,        \* per upload request: success_count local
    u_failure,        \* per upload request: failure_count local
    add_calls,        \* one entry per finished add_document_chunks call
    q_query,          \* search_similar_chunks: query argument
    q_top_k,          \* search_similar_chunks: top_k argument
    q_pc,             \* "ready" | "embed" | "query" | "returned" | "raised" | "idle"
    q_count,          \* <<>>, or <<n>> once collection.count() has returned n
    q_embedding,      \* query_embedding local
    q_embed_calls,    \* generate_embedding calls made by the search
    q_query_calls,    \* collection.query calls made by the search
    q_seen,           \* the records the collection held when it was queried
    q_results,        \* results local: what collection.query returned
    q_chunks          \* the returned list

chatInputs == <<conversation_id, retrieval, fragments, gen_fail, fail_after>>
genVars == <<g_pc, g_conv_id, g_calls, g_response>>
streamVars == <<s_pc, s_conv_id, s_calls, s_pos, s_token, s_err, s_out>>
formatVars == <<f_chunks, f_pc, f_sources>>
splitVars == <<t_text, t_size, t_overlap, t_pc, t_initial, t_chunks, t_depth>>
uploadVars == <<u_files, u_pc, u_done, u_doc, u_chunk_data, u_batch, u_embed_calls, u_results, u_success, u_failure, add_calls>>
searchVars == <<q_query, q_top_k, q_pc, q_count, q_embedding, q_embed_calls, q_query_calls, q_seen, q_results, q_chunks>>
indexVars == <<store, uploadVars, searchVars>>
vars == <<chatInputs, uuid_next, genVars, streamVars, formatVars, splitVars, indexVars>>

----------------------------------------------------------------------------
(* Bounds of the model *)

\* longest list of passages search_similar_chunks returns
MaxTopK == 2
\* longest remote stream, in chunks
MaxFrags == 2
\* longest text given to the Segmenter
MaxTextLen == 6
\* largest chunk_size given to the Segmenter
MaxChunkSize == 3
\* the overlap of the scaled 2500/1000/200 scenario; its chunk_size is five
\* times and its text twelve and a half times as long
ScenarioUnit == 2

----------------------------------------------------------------------------
(* Strings *)

RECURSIVE Concat(_)
\* "".join(parts)
Concat(parts) == IF parts = <<>> THEN <<>> ELSE Head(parts) \o Concat(Tail(parts))

\* s[:n] for n >= 0
Take(s, n) == SubSeq(s, 1, IF n < Len(s) THEN n ELSE Len(s))

\* the sequences over S of length at most n
RECURSIVE SeqsUpTo(_, _)
SeqsUpTo(S, n) ==
    IF n = 0 THEN {<<>>}
    ELSE LET shorter == SeqsUpTo(S, n - 1)
         IN shorter \cup {Append(q, x) : q \in {r \in shorter : Len(r) = n - 1}, x \in S}

Injective(q) == \A i, j \in 1..Len(q) : i # j => q[i] # q[j]

----------------------------------------------------------------------------
(* chat_service.py *)

\* settings.LLM_MODEL
LLM_MODEL == "gpt-4o-mini"

\* the canned answer of generate_response when nothing was retrieved
NoDocumentsAnswer == <<"I don't have any documents to reference. Please upload some documents first.">>

\* the slice bound and length threshold of a Source's content
PreviewLen == 200

\* the truncation marker "..."
Ellipsis == <<".", ".", ".">>

\* a passage text of n characters
PassageText(n) == [i \in 1..n |-> IF i % 5 = 0 THEN " " ELSE IF i % 3 = 0 THEN "b" ELSE "a"]

\* the passages the store can return
ChunkPool ==
    { [chunk_id |-> "d1_chunk_0", document_id |-> "d1", filename |-> "a.txt",
       content |-> PassageText(2), similarity_score |-> 90],
      [chunk_id |-> "d1_chunk_1", document_id |-> "d1", filename |-> "a.txt",
       content |-> PassageText(3), similarity_score |-> 80],
      [chunk_id |-> "d2_chunk_0", document_id |-> "d2", filename |-> "b.pdf",
       content |-> PassageText(PreviewLen + 1), similarity_score |-> 70] }

\* what search_similar_chunks can do: raise, or return a list of passages
RetrievalOutcomes ==
    {[ok |-> FALSE, chunks |-> <<>>]}
      \cup {[ok |-> TRUE, chunks |-> q] : q \in {r \in SeqsUpTo(ChunkPool, MaxTopK) : Injective(r)}}

\* delta.content of one streamed chunk: None, "" or a piece of text
FragmentPool == {<<>>, << <<>> >>, << <<"a">> >>, << <<"b", "c">> >>}

\* Python truthiness of an Optional[str]
Truthy(opt) == opt # <<>> /\ opt[1] # <<>>

\* x or ""
OrEmpty(opt) == IF Truthy(opt) THEN opt[1] ELSE <<>>

\* str(uuid.uuid4()): the k-th identifier handed out
Uuid4(k) == IF k <= 6 THEN <<"uuid-1", "uuid-2", "uuid-3", "uuid-4", "uuid-5", "uuid-6">>[k] ELSE "uuid-7"

\* a resolution that never reuses the caller's id
ResolveConvIdNever(conv, fresh) == fresh
\* conversation_id or str(uuid.uuid4())
ResolveConvId(conv, fresh) == IF conv # <<>> /\ conv[1] # "" THEN conv[1] ELSE fresh

\* whether the resolution consumed a fresh identifier
Minted(conv) == ~(conv # <<>> /\ conv[1] # "")

\* a preview that truncates from 200 characters on instead of from 201
PreviewOffByOne(content) ==
    IF Len(content) >= PreviewLen THEN Take(content, PreviewLen) \o Ellipsis ELSE content
\* Source.content of one chunk
Preview(content) ==
    IF Len(content) > PreviewLen THEN Take(content, PreviewLen) \o Ellipsis ELSE content

\* format_sources(chunks)
format_sources(chunks) ==
    [i \in 1..Len(chunks) |->
        [chunk_id |-> chunks[i].chunk_id,
         document_id |-> chunks[i].document_id,
         filename |-> chunks[i].filename,
         content |-> Preview(chunks[i].content),
         similarity_score |-> chunks[i].similarity_score]]

\* the text the remote generator produces for the prompt: what its stream
\* delivers in pieces
GeneratedText == Concat([i \in 1..Len(fragments) |-> OrEmpty(fragments[i])])

\* response.choices[0].message.content of the non-streaming call: the generated
\* text, or possibly None when there is none
CompletionContents ==
    IF GeneratedText = <<>> THEN {<<>>, <<GeneratedText>>} ELSE {<<GeneratedText>>}

\* response.usage: absent, or a token count
Usages == {<<>>, <<42>>}

\* a check that never takes the short circuit
HasChunksAlways(chunks) == TRUE
\* `if not chunks` of generate_response, negated
HasChunks(chunks) == chunks # <<>>

(* ---- generate_response ---- *)

\* the whole handler: conv_id, the search, the short circuit on an empty
\* result, the remote call and the response built from it
GenerateResponse ==
    /\ g_pc = "called"
    /\ g_conv_id' = ResolveConvId(conversation_id, Uuid4(uuid_next + 1))
    /\ uuid_next' = IF Minted(conversation_id) THEN uuid_next + 1 ELSE uuid_next
    /\ IF ~retrieval.ok
       THEN \* search_similar_chunks raises outside the try block
            /\ g_pc' = "raised"
            /\ g_response' = <<>>
            /\ g_calls' = g_calls
       ELSE IF ~HasChunks(retrieval.chunks)
       THEN /\ g_pc' = "returned"
            /\ g_response' = << [conversation_id |-> g_conv_id',
                                 answer |-> NoDocumentsAnswer,
                                 sources |-> <<>>,
                                 model_used |-> LLM_MODEL,
                                 tokens_used |-> <<>>] >>
            /\ g_calls' = g_calls
       ELSE /\ g_calls' = g_calls + 1
            /\ IF gen_fail = "create"
               THEN /\ g_pc' = "raised"
                    /\ g_response' = <<>>
               ELSE /\ g_pc' = "returned"
                    /\ \E content \in CompletionContents, usage \in Usages :
                         g_response' = << [conversation_id |-> g_conv_id',
                                           answer |-> OrEmpty(content),
                                           sources |-> format_sources(retrieval.chunks),
                                           model_used |-> LLM_MODEL,
                                           tokens_used |-> usage] >>
    /\ UNCHANGED <<chatInputs, streamVars, formatVars, splitVars, indexVars>>

(* ---- stream_response ---- *)

\* one yielded "event: <name>\n" line
EventLine(name) == [kind |-> "event", name |-> name]

\* one yielded "data: <json>\n\n" line, as the object json.dumps serialises
DataLine(payload) == [kind |-> "data", data |-> payload]

\* a no-documents branch without its `return`
AfterNoDocsFallThrough == "yield_start_event"
\* where the generator goes after the data line of the no-documents error:
\* `return`
AfterNoDocs == "finished"

\* an exception path that completes the stream instead of reporting
OnExceptionDone == "yield_done_event"
\* where the generator goes when the try block raises: `except Exception`
OnException == "yield_error_event"

\* a filter that also drops one-character fragments
ForwardsDropShort(content) == Truthy(content) /\ Len(content[1]) > 1
\* `if chunk.choices[0].delta.content`
Forwards(content) == Truthy(content)

\* a start payload that leaves the citations out
StartPayloadNoSources(conv_id, chunks) ==
    [conversation_id |-> conv_id, sources |-> <<>>]
\* the payload of the start event
StartPayload(conv_id, chunks) ==
    [conversation_id |-> conv_id, sources |-> format_sources(chunks)]

\* conv_id and the search, up to the first yield
StreamSearch ==
    /\ s_pc = "search"
    /\ s_conv_id' = ResolveConvId(conversation_id, Uuid4(uuid_next + 1))
    /\ uuid_next' = IF Minted(conversation_id) THEN uuid_next + 1 ELSE uuid_next
    /\ IF ~retrieval.ok
       THEN /\ s_pc' = OnException
            /\ s_err' = "Failed to search vector DB"
       ELSE /\ s_pc' = IF retrieval.chunks = <<>> THEN "yield_nodocs_event"
                       ELSE "yield_start_event"
            /\ s_err' = s_err
    /\ UNCHANGED <<s_calls, s_pos, s_token, s_out, chatInputs, genVars, formatVars, splitVars, indexVars>>

StreamYieldNoDocsEvent ==
    /\ s_pc = "yield_nodocs_event"
    /\ s_out' = Append(s_out, EventLine("error"))
    /\ s_pc' = "yield_nodocs_data"
    /\ UNCHANGED <<s_conv_id, s_calls, s_pos, s_token, s_err, uuid_next, chatInputs, genVars, formatVars, splitVars, indexVars>>

StreamYieldNoDocsData ==
    /\ s_pc = "yield_nodocs_data"
    /\ s_out' = Append(s_out, DataLine([error |-> "No documents available"]))
    /\ s_pc' = AfterNoDocs
    /\ UNCHANGED <<s_conv_id, s_calls, s_pos, s_token, s_err, uuid_next, chatInputs, genVars, formatVars, splitVars, indexVars>>

StreamYieldStartEvent ==
    /\ s_pc = "yield_start_event"
    /\ s_out' = Append(s_out, EventLine("start"))
    /\ s_pc' = "yield_start_data"
    /\ UNCHANGED <<s_conv_id, s_calls, s_pos, s_token, s_err, uuid_next, chatInputs, genVars, formatVars, splitVars, indexVars>>

StreamYieldStartData ==
    /\ s_pc = "yield_start_data"
    /\ s_out' = Append(s_out, DataLine(StartPayload(s_conv_id, retrieval.chunks)))
    /\ s_pc' = "create"
    /\ UNCHANGED <<s_conv_id, s_calls, s_pos, s_token, s_err, uuid_next, chatInputs, genVars, formatVars, splitVars, indexVars>>

\* chat.completions.create(..., stream=True)
StreamCreate ==
    /\ s_pc = "create"
    /\ s_calls' = s_calls + 1
    /\ IF gen_fail = "create"
       THEN /\ s_pc' = OnException
            /\ s_err' = "generation failed"
       ELSE /\ s_pc' = "iterate"
            /\ s_err' = s_err
    /\ UNCHANGED <<s_conv_id, s_pos, s_token, s_out, uuid_next, chatInputs, genVars, formatVars, splitVars, indexVars>>

\* one turn of `for chunk in stream`, up to the next yield
StreamIterate ==
    /\ s_pc = "iterate"
    /\ IF gen_fail = "mid" /\ s_pos = fail_after
       THEN /\ s_pc' = OnException
            /\ s_err' = "generation failed"
            /\ UNCHANGED <<s_pos, s_token>>
       ELSE IF s_pos = Len(fragments)
       THEN /\ s_pc' = "yield_done_event"
            /\ UNCHANGED <<s_pos, s_token, s_err>>
       ELSE /\ s_pos' = s_pos + 1
            /\ IF Forwards(fragments[s_pos + 1])
               THEN /\ s_token' = fragments[s_pos + 1][1]
                    /\ s_pc' = "yield_token_event"
               ELSE /\ s_token' = s_token
                    /\ s_pc' = "iterate"
            /\ s_err' = s_err
    /\ UNCHANGED <<s_conv_id, s_calls, s_out, uuid_next, chatInputs, genVars, formatVars, splitVars, indexVars>>

StreamYieldTokenEvent ==
    /\ s_pc = "yield_token_event"
    /\ s_out' = Append(s_out, EventLine("token"))
    /\ s_pc' = "yield_token_data"
    /\ UNCHANGED <<s_conv_id, s_calls, s_pos, s_token, s_err, uuid_next, chatInputs, genVars, formatVars, splitVars, indexVars>>

StreamYieldTokenData ==
    /\ s_pc = "yield_token_data"
    /\ s_out' = Append(s_out, DataLine([token |-> s_token]))
    /\ s_pc' = "iterate"
    /\ UNCHANGED <<s_conv_id, s_calls, s_pos, s_token, s_err, uuid_next, chatInputs, genVars, formatVars, splitVars, indexVars>>

StreamYieldDoneEvent ==
    /\ s_pc = "yield_done_event"
    /\ s_out' = Append(s_out, EventLine("done"))
    /\ s_pc' = "yield_done_data"
    /\ UNCHANGED <<s_conv_id, s_calls, s_pos, s_token, s_err, uuid_next, chatInputs, genVars, formatVars, splitVars, indexVars>>

StreamYieldDoneData ==
    /\ s_pc = "yield_done_data"
    /\ s_out' = Append(s_out, DataLine([model |-> LLM_MODEL]))
    /\ s_pc' = "finished"
    /\ UNCHANGED <<s_conv_id, s_calls, s_pos, s_token, s_err, uuid_next, chatInputs, genVars, formatVars, splitVars, indexVars>>

\* the except handler
StreamYieldErrorEvent ==
    /\ s_pc = "yield_error_event"
    /\ s_out' = Append(s_out, EventLine("error"))
    /\ s_pc' = "yield_error_data"
    /\ UNCHANGED <<s_conv_id, s_calls, s_pos, s_token, s_err, uuid_next, chatInputs, genVars, formatVars, splitVars, indexVars>>

StreamYieldErrorData ==
    /\ s_pc = "yield_error_data"
    /\ s_out' = Append(s_out, DataLine([error |-> s_err]))
    /\ s_pc' = "finished"
    /\ UNCHANGED <<s_conv_id, s_calls, s_pos, s_token, s_err, uuid_next, chatInputs, genVars, formatVars, splitVars, indexVars>>

StreamNext ==
    \/ StreamSearch
    \/ StreamYieldNoDocsEvent
    \/ StreamYieldNoDocsData
    \/ StreamYieldStartEvent
    \/ StreamYieldStartData
    \/ StreamCreate
    \/ StreamIterate
    \/ StreamYieldTokenEvent
    \/ StreamYieldTokenData
    \/ StreamYieldDoneEvent
    \/ StreamYieldDoneData
    \/ StreamYieldErrorEvent
    \/ StreamYieldErrorData

\* no upload and no search is being served, and the collection is empty
IndexIdle ==
    /\ store = <<>>
    /\ u_files = <<>>
    /\ u_pc = <<>>
    /\ u_done = <<>>
    /\ u_doc = <<>>
    /\ u_chunk_data = <<>>
    /\ u_batch = <<>>
    /\ u_embed_calls = <<>>
    /\ u_results = <<>>
    /\ u_success = <<>>
    /\ u_failure = <<>>
    /\ add_calls = <<>>
    /\ q_query = <<>>
    /\ q_top_k = 0
    /\ q_pc = "idle"
    /\ q_count = <<>>
    /\ q_embedding = 0
    /\ q_embed_calls = 0
    /\ q_query_calls = 0
    /\ q_seen = <<>>
    /\ q_results = <<>>
    /\ q_chunks = <<>>

\* the Segmenter is not running
SplitIdle ==
    /\ t_text = <<>>
    /\ t_size = 0
    /\ t_overlap = 0
    /\ t_pc = "idle"
    /\ t_initial = <<>>
    /\ t_chunks = <<>>
    /\ t_depth = 0

\* format_sources is not running on its own
FormatIdle ==
    /\ f_chunks = <<>>
    /\ f_pc = "idle"
    /\ f_sources = <<>>

\* no chat request is being served
ChatIdle ==
    /\ conversation_id = <<>>
    /\ retrieval = [ok |-> FALSE, chunks |-> <<>>]
    /\ fragments = <<>>
    /\ gen_fail = "none"
    /\ fail_after = 0
    /\ uuid_next = 0
    /\ g_pc = "idle"
    /\ g_conv_id = ""
    /\ g_calls = 0
    /\ g_response = <<>>
    /\ s_pc = "idle"
    /\ s_conv_id = ""
    /\ s_calls = 0
    /\ s_pos = 0
    /\ s_token = <<>>
    /\ s_err = ""
    /\ s_out = <<>>

\* one chat request, served by both handlers
ChatInit ==
    /\ conversation_id \in {<<>>, <<"">>, <<"conv-7">>}
    /\ retrieval \in RetrievalOutcomes
    /\ fragments \in SeqsUpTo(FragmentPool, MaxFrags)
    /\ gen_fail \in {"none", "create", "mid"}
    /\ fail_after \in 0..Len(fragments)
    /\ gen_fail # "mid" => fail_after = 0
    /\ uuid_next = 0
    /\ g_pc = "called"
    /\ g_conv_id = ""
    /\ g_calls = 0
    /\ g_response = <<>>
    /\ s_pc = "search"
    /\ s_conv_id = ""
    /\ s_calls = 0
    /\ s_pos = 0
    /\ s_token = <<>>
    /\ s_err = ""
    /\ s_out = <<>>
    /\ FormatIdle
    /\ SplitIdle
    /\ IndexIdle

ChatNext == GenerateResponse \/ StreamNext

ChatSpec == ChatInit /\ [][ChatNext]_vars

----------------------------------------------------------------------------
(* format_sources on its own *)

\* the passage texts format_sources is tried on: around the 200-character
\* threshold and well away from it
FormatLengths == {0, 1, PreviewLen - 1, PreviewLen, PreviewLen + 1, PreviewLen + 2, 2 * PreviewLen}

FormatPool ==
    { [chunk_id |-> <<"doc_chunk", n>>, document_id |-> "doc", filename |-> "a.txt",
       content |-> PassageText(n), similarity_score |-> 50] : n \in FormatLengths }

AllSeqsUpTo(S, n) == UNION {[1..k -> S] : k \in 0..n}

FormatInit ==
    /\ f_chunks \in AllSeqsUpTo(FormatPool, MaxTopK)
    /\ f_pc = "called"
    /\ f_sources = <<>>
    /\ ChatIdle
    /\ SplitIdle
    /\ IndexIdle

FormatSources ==
    /\ f_pc = "called"
    /\ f_sources' = format_sources(f_chunks)
    /\ f_pc' = "returned"
    /\ UNCHANGED <<f_chunks, chatInputs, uuid_next, genVars, streamVars, splitVars, indexVars>>

FormatNext == FormatSources

FormatSpec == FormatInit /\ [][FormatNext]_vars

----------------------------------------------------------------------------
(* text_splitter.py *)

\* a hierarchy with a sixth level, ", "
SeparatorsWithComma == << <<"\n", "\n">>, <<"\n">>, <<".", " ">>, <<",", " ">>, <<" ">>, <<>> >>
\* separators = ["\n\n", "\n", ". ", " ", ""]
Separators == << <<"\n", "\n">>, <<"\n">>, <<".", " ">>, <<" ">>, <<>> >>

\* whether sep occurs in text at position i (1-based)
OccursAt(text, sep, i) ==
    /\ i + Len(sep) - 1 <= Len(text)
    /\ SubSeq(text, i, i + Len(sep) - 1) = sep

RECURSIVE SplitFrom(_, _, _, _)
\* the pieces of text[i..] around the occurrences of sep, found left to right
\* without overlap; piece is the part of the current piece already scanned
SplitFrom(text, sep, i, piece) ==
    IF i > Len(text) THEN <<piece>>
    ELSE IF OccursAt(text, sep, i)
    THEN <<piece>> \o SplitFrom(text, sep, i + Len(sep), <<>>)
    ELSE SplitFrom(text, sep, i + 1, Append(piece, text[i]))

\* text.split(separator) for a non-empty separator
StrSplit(text, sep) == SplitFrom(text, sep, 1, <<>>)

\* [text[i : i + chunk_size] for i in range(0, len(text), chunk_size - chunk_overlap)]
CharWindows(text, chunk_size, chunk_overlap) ==
    LET step == chunk_size - chunk_overlap
        n == (Len(text) + step - 1) \div step
    IN [k \in 1..n |->
          LET start == (k - 1) * step
              stop == IF start + chunk_size < Len(text) THEN start + chunk_size ELSE Len(text)
          IN SubSeq(text, start + 1, stop)]

\* current_chunk + (separator if current_chunk else "") + split
TestChunk(current_chunk, separator, split) ==
    current_chunk \o (IF current_chunk # <<>> THEN separator ELSE <<>>) \o split

\* a size test that lets one character too many through
FitsOneMore(test_chunk, chunk_size) == Len(test_chunk) <= chunk_size + 1
\* len(test_chunk) <= chunk_size
Fits(test_chunk, chunk_size) == Len(test_chunk) <= chunk_size

RECURSIVE split_recursive(_, _, _, _)
RECURSIVE SplitLoop(_, _, _, _, _, _, _, _)

\* the body of `for split in splits`, from the k-th split on; the result is
\* the locals [current_chunks, current_chunk] after the loop
SplitLoop(splits, k, current_chunks, current_chunk, separator, remaining_separators, chunk_size, chunk_overlap) ==
    IF k > Len(splits) THEN [current_chunks |-> current_chunks, current_chunk |-> current_chunk]
    ELSE
      LET split == splits[k]
          test_chunk == TestChunk(current_chunk, separator, split)
      IN IF Fits(test_chunk, chunk_size)
         THEN SplitLoop(splits, k + 1, current_chunks, test_chunk, separator,
                        remaining_separators, chunk_size, chunk_overlap)
         ELSE
           LET flushed == IF current_chunk # <<>> THEN Append(current_chunks, current_chunk)
                          ELSE current_chunks
           IN IF Len(split) > chunk_size
              THEN LET sub_chunks == split_recursive(split, remaining_separators,
                                                     chunk_size, chunk_overlap)
                   IN SplitLoop(splits, k + 1,
                                flushed \o (IF sub_chunks = <<>> THEN <<>>
                                            ELSE SubSeq(sub_chunks, 1, Len(sub_chunks) - 1)),
                                IF sub_chunks # <<>> THEN sub_chunks[Len(sub_chunks)] ELSE <<>>,
                                separator, remaining_separators, chunk_size, chunk_overlap)
              ELSE SplitLoop(splits, k + 1, flushed, split, separator,
                             remaining_separators, chunk_size, chunk_overlap)

\* split_recursive(text, separators) with chunk_size and chunk_overlap of the
\* enclosing call
split_recursive(text, separators, chunk_size, chunk_overlap) ==
    IF separators = <<>> THEN CharWindows(text, chunk_size, chunk_overlap)
    ELSE
      LET separator == Head(separators)
          remaining_separators == Tail(separators)
      IN IF separator = <<>> THEN CharWindows(text, chunk_size, chunk_overlap)
         ELSE
           LET after == SplitLoop(StrSplit(text, separator), 1, <<>>, <<>>, separator,
                                  remaining_separators, chunk_size, chunk_overlap)
           IN IF after.current_chunk # <<>>
              THEN Append(after.current_chunks, after.current_chunk)
              ELSE after.current_chunks

\* an overlap taken from the front of the previous chunk
OverlapTextFromFront(prev_chunk, chunk_overlap) ==
    IF Len(prev_chunk) > chunk_overlap THEN SubSeq(prev_chunk, 1, chunk_overlap)
    ELSE prev_chunk
\* prev_chunk[-chunk_overlap:] if len(prev_chunk) > chunk_overlap else prev_chunk
OverlapText(prev_chunk, chunk_overlap) ==
    IF Len(prev_chunk) > chunk_overlap
    THEN SubSeq(prev_chunk, Len(prev_chunk) - chunk_overlap + 1, Len(prev_chunk))
    ELSE prev_chunk

\* the loop that adds overlap between chunks
AddOverlap(initial_chunks, chunk_overlap) ==
    [i \in 1..Len(initial_chunks) |->
        IF i = 1 THEN initial_chunks[i]
        ELSE OverlapText(initial_chunks[i - 1], chunk_overlap) \o <<" ">> \o initial_chunks[i]]

\* the units before overlap is added: initial_chunks, or the list returned early
InitialChunks(text, chunk_size, chunk_overlap) ==
    IF text = <<>> THEN <<>>
    ELSE IF Len(text) <= chunk_size THEN <<text>>
    ELSE split_recursive(text, Separators, chunk_size, chunk_overlap)

\* split_text_into_chunks(text, chunk_size, chunk_overlap)
split_text_into_chunks(text, chunk_size, chunk_overlap) ==
    IF text = <<>> THEN <<>>
    ELSE IF Len(text) <= chunk_size THEN <<text>>
    ELSE AddOverlap(split_recursive(text, Separators, chunk_size, chunk_overlap), chunk_overlap)

\* the larger of two numbers
Max2(a, b) == IF a >= b THEN a ELSE b

RECURSIVE MaxOver(_)
\* max(numbers), 0 for none
MaxOver(numbers) == IF numbers = <<>> THEN 0 ELSE Max2(Head(numbers), MaxOver(Tail(numbers)))

RECURSIVE RecursionDepth(_, _, _, _)
\* how deep the calls of split_recursive nest for split_recursive(text,
\* separators): the call itself, plus the deepest call it makes; it calls
\* itself on every split longer than chunk_size (such a split never fits)
RecursionDepth(text, separators, chunk_size, chunk_overlap) ==
    IF separators = <<>> \/ Head(separators) = <<>> THEN 1
    ELSE LET splits == StrSplit(text, Head(separators))
         IN 1 + MaxOver([k \in 1..Len(splits) |->
                           IF Len(splits[k]) > chunk_size
                           THEN RecursionDepth(splits[k], Tail(separators), chunk_size, chunk_overlap)
                           ELSE 0])

\* the nesting reached by split_text_into_chunks: none on the early returns
CallDepth(text, chunk_size, chunk_overlap) ==
    IF text = <<>> \/ Len(text) <= chunk_size THEN 0
    ELSE RecursionDepth(text, Separators, chunk_size, chunk_overlap)

\* the characters of the texts
Alphabet == {"a", " ", ".", "\n"}

SplitInit ==
    /\ t_text \in AllSeqsUpTo(Alphabet, MaxTextLen)
    /\ t_size \in 2..MaxChunkSize
    /\ t_overlap \in 1..(t_size - 1)
    /\ t_pc = "called"
    /\ t_initial = <<>>
    /\ t_chunks = <<>>
    /\ t_depth = 0
    /\ ChatIdle
    /\ FormatIdle
    /\ IndexIdle

SplitTextIntoChunks ==
    /\ t_pc = "called"
    /\ t_initial' = InitialChunks(t_text, t_size, t_overlap)
    /\ t_chunks' = split_text_into_chunks(t_text, t_size, t_overlap)
    /\ t_depth' = CallDepth(t_text, t_size, t_overlap)
    /\ t_pc' = "returned"
    /\ UNCHANGED <<t_text, t_size, t_overlap, chatInputs, uuid_next, genVars, streamVars, formatVars, indexVars>>

SplitNext == SplitTextIntoChunks

SplitSpec == SplitInit /\ [][SplitNext]_vars

(* the 2500-character scenario, scaled *)

\* chunk_size and chunk_overlap of the scenario: 1000 and 200, scaled
ScenarioOverlap == ScenarioUnit
ScenarioSize == 5 * ScenarioUnit
\* the length of the scenario's text: 2500, scaled
ScenarioLen == (25 * ScenarioUnit) \div 2

\* a text of the scenario's length with the character c at every p-th place
ScenarioText(c, p) == [i \in 1..ScenarioLen |-> IF i % p = 0 THEN c ELSE "a"]

ScenarioInit ==
    /\ t_text \in {ScenarioText(c, p) : c \in Alphabet, p \in 1..ScenarioLen}
    /\ t_size = ScenarioSize
    /\ t_overlap = ScenarioOverlap
    /\ t_pc = "called"
    /\ t_initial = <<>>
    /\ t_chunks = <<>>
    /\ t_depth = 0
    /\ ChatIdle
    /\ FormatIdle
    /\ IndexIdle

ScenarioSpec == ScenarioInit /\ [][SplitNext]_vars

----------------------------------------------------------------------------
(* document_service.py, file_parser.py, vector_service.py: indexing and search *)

\* most files in the upload requests of one behaviour
MaxFiles == 2
\* settings.CHUNK_SIZE and settings.CHUNK_OVERLAP: configurable, small here
ChunkSizeSetting == 3
ChunkOverlapSetting == 1

\* settings.MAX_FILE_SIZE_MB
MAX_FILE_SIZE_MB == 10
\* settings.ALLOWED_FILE_TYPES
ALLOWED_FILE_TYPES == {<<"p", "d", "f">>, <<"t", "x", "t">>}
\* the members of FileType
FileTypes == {<<"p", "d", "f">>, <<"t", "x", "t">>}

\* c.lower() for one character
LowerChar(c) ==
    CASE c = "T" -> "t"
      [] c = "X" -> "x"
      [] c = "P" -> "p"
      [] c = "D" -> "d"
      [] c = "F" -> "f"
      [] OTHER -> c

\* s.lower()
Lower(s) == [i \in 1..Len(s) |-> LowerChar(s[i])]

\* "." in s
HasDot(s) == \E i \in 1..Len(s) : s[i] = "."

\* filename.split(".")[-1].lower()
LastPartLower(filename) ==
    LET parts == StrSplit(filename, <<".">>) IN Lower(parts[Len(parts)])

\* file_ext of validate_file: the extension, "" for a name without a dot
ValidatedExt(file) ==
    LET filename == OrEmpty(file.filename)
    IN IF HasDot(filename) THEN LastPartLower(filename) ELSE <<>>

\* validate_file: is_valid
validate_file(file) == ValidatedExt(file) \in ALLOWED_FILE_TYPES

\* the characters str.strip() removes
IsSpace(c) == c \in {" ", "\n"}

RECURSIVE LStrip(_)
LStrip(s) == IF s # <<>> /\ IsSpace(Head(s)) THEN LStrip(Tail(s)) ELSE s

RECURSIVE RStrip(_)
RStrip(s) == IF s # <<>> /\ IsSpace(s[Len(s)]) THEN RStrip(SubSeq(s, 1, Len(s) - 1)) ELSE s

\* s.strip()
Strip(s) == RStrip(LStrip(s))

RECURSIVE JoinLines(_)
\* "\n".join(parts)
JoinLines(parts) ==
    IF parts = <<>> THEN <<>>
    ELSE IF Len(parts) = 1 THEN parts[1]
    ELSE parts[1] \o <<"\n">> \o JoinLines(Tail(parts))

RECURSIVE TextParts(_)
\* text_parts of extract_text_from_pdf: the text of the pages that have some
TextParts(pages) ==
    IF pages = <<>> THEN <<>>
    ELSE (IF Head(pages) # <<>> THEN <<Head(pages)>> ELSE <<>>) \o TextParts(Tail(pages))

\* extract_text_from_pdf, for a file the reader can parse
extract_text_from_pdf(file) == Strip(JoinLines(TextParts(file.content)))

\* extract_text_from_txt, for a file that can be decoded
extract_text_from_txt(file) == Strip(file.content[1])

\* create_chunk_metadata numbering the chunks from 1
CreateChunkMetadataFromOne(chunks, document_id, filename, file_type) ==
    [i \in 1..Len(chunks) |->
        [text |-> chunks[i],
         metadata |-> [document_id |-> document_id,
                       filename |-> filename,
                       file_type |-> file_type,
                       chunk_index |-> i,
                       total_chunks |-> Len(chunks)]]]

\* create_chunk_metadata
create_chunk_metadata(chunks, document_id, filename, file_type) ==
    [i \in 1..Len(chunks) |->
        [text |-> chunks[i],
         metadata |-> [document_id |-> document_id,
                       filename |-> filename,
                       file_type |-> file_type,
                       chunk_index |-> i - 1,
                       total_chunks |-> Len(chunks)]]]

\* file.filename or "unknown"
OrUnknown(opt) == IF Truthy(opt) THEN opt[1] ELSE <<"u", "n", "k", "n", "o", "w", "n">>

\* the locals of process_single_document before the file is read, for a
\* valid file that gets document_id (the upload time is left out)
StartDocument(file, document_id) ==
    LET filename == IF Truthy(file.filename) THEN file.filename[1] ELSE <<"document_", document_id>>
    IN [document_id |-> document_id, filename |-> filename, file_ext |-> LastPartLower(filename)]

\* process_single_document from the return of file.read() up to the call of
\* add_document_chunks, with the locals started before the read: whether it
\* raised, str(e) if so, and the locals and chunk_data if not
PrepareDocument(file, started) ==
    LET raise(error) == [raised |-> TRUE, error |-> error, doc |-> <<>>, chunk_data |-> <<>>]
        doc == [document_id |-> started.document_id, filename |-> started.filename, file_ext |-> started.file_ext, file_size |-> file.size]
    IN IF file.size > MAX_FILE_SIZE_MB * 1024 * 1024 THEN raise("File size exceeds maximum allowed size")
       ELSE IF started.file_ext \notin {<<"p", "d", "f">>, <<"t", "x", "t">>} THEN raise("Unsupported file type")
       ELSE IF ~file.readable THEN raise("Failed to read the file")
       ELSE LET text == IF started.file_ext = <<"p", "d", "f">> THEN extract_text_from_pdf(file) ELSE extract_text_from_txt(file)
                chunks == split_text_into_chunks(text, ChunkSizeSetting, ChunkOverlapSetting)
            IN IF text = <<>> THEN raise("No text could be extracted from the file")
               ELSE [raised |-> FALSE, error |-> "", doc |-> doc,
                     chunk_data |-> create_chunk_metadata(chunks, started.document_id, started.filename, started.file_ext)]

\* document_metadata
DocumentMetadata(doc) == [filename |-> doc.filename, file_type |-> doc.file_ext, file_size |-> doc.file_size]

\* f"{document_id}_chunk_{chunk_index}", as its three parts
ChunkId(document_id, chunk_index) == <<document_id, "_chunk_", chunk_index>>

\* {**metadata, **chunk["metadata"], "chunk_id": chunk_id}
CombinedMetadata(metadata, chunk_metadata, chunk_id) == [chunk_id |-> chunk_id] @@ chunk_metadata @@ metadata

\* the vector the remote model returns for text: vectors are the points 0, 1
\* and 2 of a line, and the model is a fixed function of the text
Embedding(text) == Len(text) % 3

\* the distance of two vectors
Distance(a, b) == IF a >= b THEN a - b ELSE b - a

\* what one turn of the loop of add_document_chunks appends to the four lists
BatchEntry(document_id, chunk, metadata) ==
    LET chunk_id == ChunkId(document_id, chunk.metadata.chunk_index)
    IN [id |-> chunk_id,
        document |-> chunk.text,
        embedding |-> Embedding(chunk.text),
        metadata |-> CombinedMetadata(metadata, chunk.metadata, chunk_id)]

\* a collection.add that keeps only the first record of the batch
CollectionAddFirst(records, batch) == records \o Take(batch, 1)

\* collection.add: the records of the collection after the batch was added
CollectionAdd(records, batch) == records \o batch

\* an add_document_chunks that returns 0
AddReturnsNothing(chunks) == 0

\* the value add_document_chunks returns
AddReturns(chunks) == Len(chunks)

\* a failure reported as a success
FailureAsSuccess(file, error) ==
    [success |-> TRUE, filename |-> OrUnknown(file.filename), document_id |-> <<>>, chunks_created |-> <<>>, error |-> <<error>>]

\* the UploadResult of a file whose processing raised
FailureResult(file, error) ==
    [success |-> FALSE, filename |-> OrUnknown(file.filename), document_id |-> <<>>, chunks_created |-> <<>>, error |-> <<error>>]

\* the UploadResult of a file that was indexed
SuccessResult(doc, chunks_created) ==
    [success |-> TRUE, filename |-> doc.filename, document_id |-> <<doc.document_id>>, chunks_created |-> <<chunks_created>>, error |-> <<>>]

\* sequence q without its i-th element
Without(q, i) == SubSeq(q, 1, i - 1) \o SubSeq(q, i + 1, Len(q))

RECURSIVE Nearest(_, _, _)
\* the n records nearest to embedding, nearest first, earlier records first
\* among equally distant ones; all the records when there are fewer than n
Nearest(records, embedding, n) ==
    IF n = 0 \/ records = <<>> THEN <<>>
    ELSE LET d(i) == Distance(embedding, records[i].embedding)
             best == CHOOSE i \in 1..Len(records) : \A j \in 1..Len(records) : d(i) < d(j) \/ (d(i) = d(j) /\ i <= j)
         IN <<records[best]>> \o Nearest(Without(records, best), embedding, n - 1)

\* collection.query(query_embeddings=[embedding], n_results=n), for the one query
CollectionQuery(records, embedding, n) ==
    LET found == Nearest(records, embedding, n)
    IN [ids |-> [i \in 1..Len(found) |-> found[i].id],
        metadatas |-> [i \in 1..Len(found) |-> found[i].metadata],
        documents |-> [i \in 1..Len(found) |-> found[i].document],
        distances |-> [i \in 1..Len(found) |-> Distance(embedding, found[i].embedding)]]

\* a score that is the distance itself
ScoreIsDistance(distance) == distance

\* the similarity score of a record at that distance
SimilarityScore(distance) == 1 - distance

\* similar_chunks, built from the results of the query
SimilarChunks(results) ==
    [i \in 1..Len(results.ids) |->
        [chunk_id |-> results.ids[i],
         document_id |-> results.metadatas[i].document_id,
         filename |-> results.metadatas[i].filename,
         content |-> results.documents[i],
         similarity_score |-> SimilarityScore(results.distances[i]),
         metadata |-> results.metadatas[i]]]

\* a collection that never reports itself empty
CountIsZeroNever(records) == FALSE

\* self.collection.count() == 0
CountIsZero(records) == Len(records) = 0

\* the requests: two uploads, the second of one file at most, and one search,
\* served concurrently
Uploaders == {1, 2}

\* a file of the given name, readable, of the size of its text
File(filename, content) ==
    [filename |-> filename, content |-> content, readable |-> TRUE, size |-> Len(Concat(content))]

\* a text file of four passages, with an upper-case extension
TxtFour == File(<<<<"a", ".", "T", "X", "T">>>>, <<<<" ", "a", "a", " ", "b", "b", " ", "c", "c", " ", "d", "d", "\n">>>>)
\* a PDF of three pages, one without text
PdfPages == File(<<<<"b", ".", "p", "d", "f">>>>, <<<<"a", ".">>, <<>>, <<"b", "\n">>>>)
\* a text file of one passage
TxtOne == File(<<<<"g", ".", "t", "x", "t">>>>, <<<<"a", "b">>>>)
\* a file of a type that is not allowed, and one without a name
ExeFile == File(<<<<"c", ".", "e", "x", "e">>>>, <<<<"a", "b">>>>)
NoName == File(<<>>, <<<<"a", "b">>>>)
\* a text file of white space only
BlankTxt == File(<<<<"d", ".", "t", "x", "t">>>>, <<<<" ", "\n">>>>)
\* a PDF the reader cannot parse
CorruptPdf == [File(<<<<"e", ".", "p", "d", "f">>>>, <<>>) EXCEPT !.readable = FALSE]
\* a text file one byte over the limit
HugeTxt == [File(<<<<"f", ".", "t", "x", "t">>>>, <<<<"a", "b">>>>) EXCEPT !.size = MAX_FILE_SIZE_MB * 1024 * 1024 + 1]

\* the files of the first and of the second upload request
FilePool == {TxtFour, ExeFile, BlankTxt, CorruptPdf, HugeTxt}
OtherFilePool == {TxtOne, PdfPages, NoName}

\* the queries
QueryPool == {<<"a">>}

IndexInit ==
    /\ store = <<>>
    /\ \E first \in AllSeqsUpTo(FilePool, MaxFiles), other \in {<<>>} \cup {<<file>> : file \in OtherFilePool} :
         /\ Len(first) + Len(other) <= MaxFiles
         /\ u_files = <<first, other>>
    /\ u_pc = [u \in Uploaders |-> "next_file"]
    /\ u_done = [u \in Uploaders |-> 0]
    /\ u_doc = [u \in Uploaders |-> <<>>]
    /\ u_chunk_data = [u \in Uploaders |-> <<>>]
    /\ u_batch = [u \in Uploaders |-> <<>>]
    /\ u_embed_calls = [u \in Uploaders |-> 0]
    /\ u_results = [u \in Uploaders |-> <<>>]
    /\ u_success = [u \in Uploaders |-> 0]
    /\ u_failure = [u \in Uploaders |-> 0]
    /\ add_calls = <<>>
    /\ q_query = <<>>
    /\ q_top_k = 0
    /\ q_pc = "ready"
    /\ q_count = <<>>
    /\ q_embedding = 0
    /\ q_embed_calls = 0
    /\ q_query_calls = 0
    /\ q_seen = <<>>
    /\ q_results = <<>>
    /\ q_chunks = <<>>
    /\ ChatIdle
    /\ FormatIdle
    /\ SplitIdle

\* the except branch of process_multiple_documents for the current file of u
RecordFailure(u, error) ==
    /\ u_results' = [u_results EXCEPT ![u] = Append(@, FailureResult(u_files[u][u_done[u] + 1], error))]
    /\ u_failure' = [u_failure EXCEPT ![u] = @ + 1]
    /\ u_done' = [u_done EXCEPT ![u] = @ + 1]
    /\ UNCHANGED u_success

\* the locals of process_single_document and add_document_chunks go away
DropLocals(u) ==
    /\ u_pc' = [u_pc EXCEPT ![u] = "next_file"]
    /\ u_doc' = [u_doc EXCEPT ![u] = <<>>]
    /\ u_chunk_data' = [u_chunk_data EXCEPT ![u] = <<>>]
    /\ u_batch' = [u_batch EXCEPT ![u] = <<>>]
    /\ u_embed_calls' = [u_embed_calls EXCEPT ![u] = 0]

\* the entry of add_calls for the call of u that is ending; overlapping says
\* whether a call of another request is under way at that moment
AddCall(u, embed_calls, inserts, count_after, returned) ==
    [document_id |-> u_doc[u].document_id,
     passages |-> Len(u_chunk_data[u]),
     embed_calls |-> embed_calls,
     inserts |-> inserts,
     count_before |-> Len(store),
     count_after |-> count_after,
     returned |-> returned,
     overlapping |-> \E v \in Uploaders \ {u} : u_pc[v] \in {"embed", "add"}]

\* process_multiple_documents takes the next file: process_single_document
\* validates it and raises, or gives it a document id and awaits file.read()
UploadNextFile(u) ==
    /\ u_pc[u] = "next_file"
    /\ u_done[u] < Len(u_files[u])
    /\ LET file == u_files[u][u_done[u] + 1]
       IN IF ~validate_file(file)
          THEN /\ RecordFailure(u, "File type not supported")
               /\ UNCHANGED <<uuid_next, u_pc, u_doc>>
          ELSE /\ uuid_next' = uuid_next + 1
               /\ u_doc' = [u_doc EXCEPT ![u] = StartDocument(file, Uuid4(uuid_next + 1))]
               /\ u_pc' = [u_pc EXCEPT ![u] = "read"]
               /\ UNCHANGED <<u_results, u_success, u_failure, u_done>>
    /\ UNCHANGED <<u_chunk_data, u_batch, u_embed_calls>>
    /\ UNCHANGED <<store, u_files, add_calls, searchVars, chatInputs, genVars, streamVars, formatVars, splitVars>>

\* file.read() has returned: process_single_document runs up to the first
\* generate_embedding of add_document_chunks, or raises
UploadRead(u) ==
    /\ u_pc[u] = "read"
    /\ LET prepared == PrepareDocument(u_files[u][u_done[u] + 1], u_doc[u])
       IN IF prepared.raised
          THEN /\ RecordFailure(u, prepared.error)
               /\ DropLocals(u)
          ELSE /\ u_doc' = [u_doc EXCEPT ![u] = prepared.doc]
               /\ u_chunk_data' = [u_chunk_data EXCEPT ![u] = prepared.chunk_data]
               /\ u_batch' = [u_batch EXCEPT ![u] = <<>>]
               /\ u_embed_calls' = [u_embed_calls EXCEPT ![u] = 0]
               /\ u_pc' = [u_pc EXCEPT ![u] = IF prepared.chunk_data = <<>> THEN "add" ELSE "embed"]
               /\ UNCHANGED <<u_results, u_success, u_failure, u_done>>
    /\ UNCHANGED <<store, u_files, uuid_next, add_calls, searchVars, chatInputs, genVars, streamVars, formatVars, splitVars>>

\* one turn of the loop of add_document_chunks: generate_embedding returns the
\* vector of the next chunk, or raises and the file is reported as failed
UploadEmbed(u) ==
    /\ u_pc[u] = "embed"
    /\ \E ok \in BOOLEAN :
         LET chunk == u_chunk_data[u][Len(u_batch[u]) + 1]
         IN IF ok
            THEN /\ u_batch' = [u_batch EXCEPT ![u] = Append(@, BatchEntry(u_doc[u].document_id, chunk, DocumentMetadata(u_doc[u])))]
                 /\ u_embed_calls' = [u_embed_calls EXCEPT ![u] = @ + 1]
                 /\ u_pc' = [u_pc EXCEPT ![u] = IF Len(u_batch[u]) + 1 = Len(u_chunk_data[u]) THEN "add" ELSE "embed"]
                 /\ UNCHANGED <<u_doc, u_chunk_data, u_results, u_success, u_failure, u_done, add_calls>>
            ELSE /\ RecordFailure(u, "Failed to add chunks to vector DB")
                 /\ add_calls' = Append(add_calls, AddCall(u, u_embed_calls[u] + 1, 0, Len(store), <<>>))
                 /\ DropLocals(u)
    /\ UNCHANGED <<store, u_files, uuid_next, searchVars, chatInputs, genVars, streamVars, formatVars, splitVars>>

\* collection.add of the whole batch, which the collection accepts or rejects
\* (an empty batch it rejects); then the file is reported
UploadAdd(u) ==
    /\ u_pc[u] = "add"
    /\ \E ok \in BOOLEAN :
         LET added == ok /\ u_batch[u] # <<>>
             chunks_created == AddReturns(u_chunk_data[u])
         IN /\ store' = IF added THEN CollectionAdd(store, u_batch[u]) ELSE store
            /\ add_calls' = Append(add_calls, AddCall(u, u_embed_calls[u], 1, Len(store'), IF added THEN <<chunks_created>> ELSE <<>>))
            /\ IF added /\ u_doc[u].file_ext \in FileTypes
               THEN /\ u_results' = [u_results EXCEPT ![u] = Append(@, SuccessResult(u_doc[u], chunks_created))]
                    /\ u_success' = [u_success EXCEPT ![u] = @ + 1]
                    /\ u_done' = [u_done EXCEPT ![u] = @ + 1]
                    /\ UNCHANGED u_failure
               ELSE RecordFailure(u, "Failed to add chunks to vector DB")
    /\ DropLocals(u)
    /\ UNCHANGED <<u_files, uuid_next, searchVars, chatInputs, genVars, streamVars, formatVars, splitVars>>

\* process_multiple_documents returns after the last file
UploadReturn(u) ==
    /\ u_pc[u] = "next_file"
    /\ u_done[u] = Len(u_files[u])
    /\ u_pc' = [u_pc EXCEPT ![u] = "returned"]
    /\ UNCHANGED <<store, u_files, u_done, u_doc, u_chunk_data, u_batch, u_embed_calls, u_results, u_success, u_failure, add_calls>>
    /\ UNCHANGED <<uuid_next, searchVars, chatInputs, genVars, streamVars, formatVars, splitVars>>

\* search_similar_chunks(query, top_k) is called and asks the collection for
\* its count
SearchCount ==
    /\ q_pc = "ready"
    /\ \E query \in QueryPool, top_k \in 1..MaxTopK :
         /\ q_query' = query
         /\ q_top_k' = top_k
    /\ q_count' = <<Len(store)>>
    /\ q_pc' = IF CountIsZero(store) THEN "returned" ELSE "embed"
    /\ UNCHANGED <<q_embedding, q_embed_calls, q_query_calls, q_seen, q_results, q_chunks>>
    /\ UNCHANGED <<store, uploadVars, uuid_next, chatInputs, genVars, streamVars, formatVars, splitVars>>

\* generate_embedding(query) returns or raises
SearchEmbed ==
    /\ q_pc = "embed"
    /\ q_embed_calls' = q_embed_calls + 1
    /\ \E ok \in BOOLEAN :
         /\ q_pc' = IF ok THEN "query" ELSE "raised"
         /\ q_embedding' = IF ok THEN Embedding(q_query) ELSE q_embedding
    /\ UNCHANGED <<q_query, q_top_k, q_count, q_query_calls, q_seen, q_results, q_chunks>>
    /\ UNCHANGED <<store, uploadVars, uuid_next, chatInputs, genVars, streamVars, formatVars, splitVars>>

\* collection.query returns and the results are formatted, or it raises
SearchQuery ==
    /\ q_pc = "query"
    /\ q_query_calls' = q_query_calls + 1
    /\ \E ok \in BOOLEAN :
         IF ok
         THEN /\ q_seen' = store
              /\ q_results' = CollectionQuery(store, q_embedding, q_top_k)
              /\ q_chunks' = SimilarChunks(q_results')
              /\ q_pc' = "returned"
         ELSE /\ q_pc' = "raised"
              /\ UNCHANGED <<q_seen, q_results, q_chunks>>
    /\ UNCHANGED <<q_query, q_top_k, q_count, q_embedding, q_embed_calls>>
    /\ UNCHANGED <<store, uploadVars, uuid_next, chatInputs, genVars, streamVars, formatVars, splitVars>>

IndexNext ==
    \/ \E u \in Uploaders : UploadNextFile(u)
    \/ \E u \in Uploaders : UploadRead(u)
    \/ \E u \in Uploaders : UploadEmbed(u)
    \/ \E u \in Uploaders : UploadAdd(u)
    \/ \E u \in Uploaders : UploadReturn(u)
    \/ SearchCount
    \/ SearchEmbed
    \/ SearchQuery

IndexSpec == IndexInit /\ [][IndexNext]_vars

----------------------------------------------------------------------------
(* Properties of stream_response and generate_response (ChatSpec) *)

\* the names of the "event:" lines yielded so far, in order
EventNames == [i \in 1..((Len(s_out) + 1) \div 2) |-> s_out[2 * i - 1].name]

\* the payload of the i-th event, once its data line was yielded
EventData(i) == s_out[2 * i].data

\* the complete events yielded so far
CompleteEvents == Len(s_out) \div 2

\* lines are yielded as pairs: an event line, then its data line
WellFramed ==
    \A k \in 1..Len(s_out) : s_out[k].kind = IF k % 2 = 1 THEN "event" ELSE "data"

Terminal == {"done", "error"}

\* the request is one whose retrieval or generation fails
RequestFails == ~retrieval.ok \/ (retrieval.chunks # <<>> /\ gen_fail # "none")

\* the request is one that succeeds: passages found, generator stream ends normally
RequestSucceeds == retrieval.ok /\ retrieval.chunks # <<>> /\ gen_fail = "none"

\* the payloads of the token events yielded so far, in order
RECURSIVE TokensFrom(_)
TokensFrom(i) ==
    IF i > CompleteEvents THEN <<>>
    ELSE (IF EventNames[i] = "token" THEN <<EventData(i).token>> ELSE <<>>) \o TokensFrom(i + 1)

TokenPayloads == TokensFrom(1)

\* the non-empty texts among the generator's fragments, in generation order
RECURSIVE NonEmptyFrom(_)
NonEmptyFrom(k) ==
    IF k > Len(fragments) THEN <<>>
    ELSE (IF fragments[k] # <<>> /\ fragments[k][1] # <<>> THEN <<fragments[k][1]>> ELSE <<>>)
           \o NonEmptyFrom(k + 1)

\* C1: every run of stream_response ends, and ends with exactly one terminal
\* event (done or error) that is the last event; the terminal event is error
\* whenever retrieval or generation failed; nothing follows an error or a done.
C1_OneTerminalEventLast ==
    /\ WellFramed
    /\ \A i \in 1..(Len(EventNames) - 1) : EventNames[i] \notin Terminal
    /\ s_pc \notin {"finished", "idle"} => ENABLED StreamNext
    /\ s_pc = "finished" =>
         /\ Len(s_out) % 2 = 0
         /\ Len(EventNames) >= 1
         /\ EventNames[Len(EventNames)] \in Terminal
         /\ RequestFails => EventNames[Len(EventNames)] = "error"

\* a run that failed mid-stream after forwarding a token and ended with error
C1_Witness ==
    /\ s_pc = "finished"
    /\ gen_fail = "mid"
    /\ \E i \in 1..Len(EventNames) : EventNames[i] = "token"
    /\ EventNames[Len(EventNames)] = "error"

\* C2: in a successful run the events are one start (resolved conversation id,
\* full citation list), then the tokens in generation order, then one done
\* with the generator identifier; no token precedes start and the generation
\* call is not issued before start was emitted.
C2_SuccessfulEventOrder ==
    /\ \A i \in 1..Len(EventNames) :
         EventNames[i] = "token" => i > 1 /\ EventNames[1] = "start"
    /\ \A i \in 2..Len(EventNames) : EventNames[i] # "start"
    /\ s_calls > 0 => CompleteEvents >= 1 /\ EventNames[1] = "start"
    /\ (CompleteEvents >= 1 /\ EventNames[1] = "start") =>
         /\ EventData(1).conversation_id = s_conv_id
         /\ (conversation_id # <<>> /\ conversation_id[1] # "" =>
               EventData(1).conversation_id = conversation_id[1])
         /\ Len(EventData(1).sources) = Len(retrieval.chunks)
         /\ \A k \in 1..Len(retrieval.chunks) :
              /\ EventData(1).sources[k].chunk_id = retrieval.chunks[k].chunk_id
              /\ EventData(1).sources[k].document_id = retrieval.chunks[k].document_id
              /\ EventData(1).sources[k].filename = retrieval.chunks[k].filename
              /\ EventData(1).sources[k].similarity_score = retrieval.chunks[k].similarity_score
    /\ (RequestSucceeds /\ s_pc = "finished") =>
         LET n == Len(EventNames)
         IN /\ n >= 2
            /\ EventNames[1] = "start"
            /\ EventNames[n] = "done"
            /\ \A i \in 2..(n - 1) : EventNames[i] = "token"
            /\ TokenPayloads = NonEmptyFrom(1)
            /\ EventData(n).model = LLM_MODEL
            /\ s_calls = 1

\* a successful run that forwarded two different tokens
C2_Witness ==
    /\ RequestSucceeds
    /\ s_pc = "finished"
    /\ Len(TokenPayloads) = 2
    /\ TokenPayloads[1] # TokenPayloads[2]
    /\ Len(retrieval.chunks) = 2

\* C3: when retrieval returns no passages, stream_response emits a single
\* error event and ends: no start, token or done, and no generation call.
C3_EmptyRetrievalSingleError ==
    (retrieval.ok /\ retrieval.chunks = <<>>) =>
        /\ s_calls = 0
        /\ Len(EventNames) <= 1
        /\ \A i \in 1..Len(EventNames) : EventNames[i] = "error"
        /\ s_pc = "finished" =>
             s_out = << [kind |-> "event", name |-> "error"],
                        [kind |-> "data", data |-> [error |-> "No documents available"]] >>

\* a finished run on an empty retrieval
C3_Witness ==
    /\ retrieval.ok
    /\ retrieval.chunks = <<>>
    /\ s_pc = "finished"
    /\ Len(s_out) = 2

\* C4: for the same request and a deterministic generator, the token payloads
\* of a successful stream_response run, concatenated in order, are the answer
\* text generate_response returns.
C4_StreamReconstructsAnswer ==
    (RequestSucceeds /\ s_pc = "finished" /\ g_pc = "returned") =>
        Concat(TokenPayloads) = g_response[1].answer

\* both handlers finished on a stream that opened with an empty fragment and
\* then delivered text
C4_Witness ==
    /\ RequestSucceeds
    /\ s_pc = "finished"
    /\ g_pc = "returned"
    /\ Len(fragments) = 2
    /\ fragments[1] = << <<>> >>
    /\ Len(TokenPayloads) = 1
    /\ g_response[1].answer = <<"b", "c">>

\* C5: generate_response given no passages returns the canned answer with no
\* citations and makes no generation call; given at least one passage it
\* makes exactly one generation call, also when that call fails.
C5_GenerateCallsOnce ==
    (retrieval.ok /\ g_pc \in {"returned", "raised"}) =>
        IF retrieval.chunks = <<>>
        THEN /\ g_pc = "returned"
             /\ g_response[1].answer = NoDocumentsAnswer
             /\ g_response[1].sources = <<>>
             /\ g_calls = 0
        ELSE /\ g_calls = 1
             /\ g_pc = "raised" <=> gen_fail = "create"

\* generate_response returned on an empty retrieval
C5_Witness ==
    /\ retrieval.ok
    /\ retrieval.chunks = <<>>
    /\ g_pc = "returned"

\* the conversation id stream_response reports, once start was emitted
StreamReportsId == CompleteEvents >= 1 /\ EventNames[1] = "start"

\* C7 as stated: whenever the caller supplies a conversation id, the empty
\* string included, both handlers report exactly that id.
C7_AnySuppliedIdReused ==
    conversation_id # <<>> =>
        /\ g_pc = "returned" => g_response[1].conversation_id = conversation_id[1]
        /\ StreamReportsId => EventData(1).conversation_id = conversation_id[1]

UuidValues == {Uuid4(1), Uuid4(2)}

\* C7: whenever the caller supplies a non-empty conversation id, both
\* handlers report exactly that id; when none or the empty string is
\* supplied, each handler reports a fresh identifier of its own.
C7_NonEmptyIdReused ==
    IF conversation_id # <<>> /\ conversation_id[1] # ""
    THEN /\ g_pc = "returned" => g_response[1].conversation_id = conversation_id[1]
         /\ StreamReportsId => EventData(1).conversation_id = conversation_id[1]
         /\ uuid_next = 0
    ELSE /\ g_pc = "returned" => g_response[1].conversation_id \in UuidValues
         /\ StreamReportsId => EventData(1).conversation_id \in UuidValues
         /\ (g_pc = "returned" /\ StreamReportsId) =>
               g_response[1].conversation_id # EventData(1).conversation_id

\* both handlers answered a request that supplied a non-empty id
C7_Witness ==
    /\ conversation_id = <<"conv-7">>
    /\ g_pc = "returned"
    /\ StreamReportsId
    /\ EventData(1).conversation_id = "conv-7"

----------------------------------------------------------------------------
(* Properties of format_sources (FormatSpec) *)

\* the first n characters of a text
FirstChars(text, n) == [j \in 1..(IF Len(text) < n THEN Len(text) ELSE n) |-> text[j]]

\* C6: format_sources returns one citation per passage, in the passages'
\* order, whose preview is the first 200 characters followed by "..." if and
\* only if the passage text is longer than 200 characters, and otherwise is
\* the passage text exactly.
C6_CitationsMirrorPassages ==
    f_pc = "returned" =>
        /\ Len(f_sources) = Len(f_chunks)
        /\ \A i \in 1..Len(f_chunks) :
             LET text == f_chunks[i].content
                 preview == f_sources[i].content
             IN /\ f_sources[i].chunk_id = f_chunks[i].chunk_id
                /\ f_sources[i].document_id = f_chunks[i].document_id
                /\ f_sources[i].filename = f_chunks[i].filename
                /\ f_sources[i].similarity_score = f_chunks[i].similarity_score
                /\ (preview = FirstChars(text, 200) \o <<".", ".", ".">>) <=> (Len(text) > 200)
                /\ Len(text) <= 200 => preview = text

\* citations of a 200-character passage followed by a 201-character one
C6_Witness ==
    /\ f_pc = "returned"
    /\ Len(f_chunks) = 2
    /\ Len(f_chunks[1].content) = 200
    /\ Len(f_chunks[2].content) = 201
    /\ Len(f_sources[2].content) = 203

----------------------------------------------------------------------------
(* Properties of split_text_into_chunks (SplitSpec) *)

\* C8: every un-overlapped core produced by split_recursive is at most
\* max_size long, a last sub-chunk of a recursive split that later segments
\* were appended to included.
C8_CoresWithinMaxSize ==
    t_pc = "returned" =>
        \A i \in 1..Len(t_initial) : Len(t_initial[i]) <= t_size

\* "aaaa a" with max_size 3, overlap 2: the last window of "aaaa" is "a", and
\* the next segment is appended to it
C8_Witness ==
    /\ t_pc = "returned"
    /\ t_text = <<"a", "a", "a", "a", " ", "a">>
    /\ t_size = 3
    /\ t_overlap = 2
    /\ t_initial[Len(t_initial)] = <<"a", " ", "a">>

\* C9 as stated: the cores, concatenated in order, are the original text: no
\* character dropped and none duplicated.
C9_CoresReconstructText ==
    t_pc = "returned" => Concat(t_initial) = t_text

\* what precedes the core in a unit after the first
Expected_Prefix(prev_core, overlap) ==
    [j \in 1..(IF Len(prev_core) > overlap THEN overlap ELSE Len(prev_core)) |->
        prev_core[Len(prev_core) - (IF Len(prev_core) > overlap THEN overlap ELSE Len(prev_core)) + j]]

\* C10: with more than one unit, the first unit is its core unchanged and
\* every later unit is the last `overlap` characters of the previous core (the
\* whole core when it is not longer), one space, and then its own core.
C10_OverlapPrefix ==
    (t_pc = "returned" /\ Len(t_chunks) > 1) =>
        /\ Len(t_chunks) = Len(t_initial)
        /\ t_chunks[1] = t_initial[1]
        /\ \A i \in 2..Len(t_chunks) :
             t_chunks[i] = Expected_Prefix(t_initial[i - 1], t_overlap) \o <<" ">> \o t_initial[i]

\* an output with a core longer than the overlap and one not longer, each
\* followed by another unit
C10_Witness ==
    /\ t_pc = "returned"
    /\ Len(t_chunks) > 2
    /\ \E i \in 1..(Len(t_initial) - 1) :
         Len(t_initial[i]) > t_overlap /\ t_initial[i][1] # t_initial[i][Len(t_initial[i])]
    /\ \E i \in 1..(Len(t_initial) - 1) : Len(t_initial[i]) <= t_overlap

\* C11 as stated: a text two and a half times max_size long, with overlap a
\* fifth of max_size, is split into exactly 3 units, and units 2 and 3 each
\* begin with the last `overlap` characters of the previous core.
C11_ScenarioThreeUnits ==
    t_pc = "returned" =>
        /\ Len(t_chunks) = 3
        /\ \A i \in 2..Len(t_chunks) :
             /\ Len(t_initial[i - 1]) >= t_overlap
             /\ SubSeq(t_chunks[i], 1, t_overlap)
                  = SubSeq(t_initial[i - 1], Len(t_initial[i - 1]) - t_overlap + 1, Len(t_initial[i - 1]))

\* the separators a text contains
HasSeparator(text) == \E i \in 1..Len(text) : text[i] \in {" ", ".", "\n"}

\* C12: split_text_into_chunks terminates: split_recursive never nests deeper
\* than the 5 levels of the separator hierarchy, and the character fallback
\* moves its window start forward by max_size - overlap > 0 at every step
\* until the end of the text.
C12_BoundedRecursionAndProgress ==
    t_pc = "returned" =>
         /\ t_depth <= 5
         /\ t_size - t_overlap > 0
         /\ (Len(t_text) > t_size /\ ~HasSeparator(t_text)) =>
              LET step == t_size - t_overlap
                  n == Len(t_initial)
              IN /\ t_depth = 5
                 /\ n >= 1
                 /\ (n - 1) * step < Len(t_text)
                 /\ n * step >= Len(t_text)
                 /\ \A k \in 1..n :
                      /\ Len(t_initial[k]) >= 1
                      /\ \A j \in 1..Len(t_initial[k]) :
                           t_initial[k][j] = t_text[(k - 1) * step + j]
                      /\ Len(t_initial[k]) = t_size \/ (k - 1) * step + Len(t_initial[k]) = Len(t_text)

\* a separator-free text that went down all five levels to the fallback,
\* which cut more than two windows
C12_Witness ==
    /\ t_pc = "returned"
    /\ ~HasSeparator(t_text)
    /\ t_depth = 5
    /\ Len(t_initial) > 2

----------------------------------------------------------------------------
(* Properties of indexing and search (IndexSpec) *)

\* the passages the Segmenter produces for a file that can be indexed
SegmenterOutput(file) ==
    LET text == IF LastPartLower(file.filename[1]) = <<"p", "d", "f">>
                THEN Strip(JoinLines(TextParts(file.content)))
                ELSE Strip(file.content[1])
    IN split_text_into_chunks(text, ChunkSizeSetting, ChunkOverlapSetting)

\* the Segmenter's passages for each file of the requests that has a name of
\* an allowed type and can be read
Passages ==
    [file \in {f \in FilePool \cup OtherFilePool : validate_file(f) /\ f.readable} |-> SegmenterOutput(file)]

\* the records of the collection that belong to a document, in the
\* collection's order
RecordsOf(document_id) ==
    LET Owned(record) == record.metadata.document_id = document_id
    IN SelectSeq(store, Owned)

\* the upload request u reported its i-th file as indexed
Indexed(u, i) ==
    /\ i \in 1..Len(u_results[u])
    /\ u_results[u][i].success
    /\ u_results[u][i].document_id # <<>>

\* C13: every document reported as indexed has, in the collection, exactly one
\* record per passage of the Segmenter, in the Segmenter's order: the k-th has
\* the id <document_id>_chunk_<k-1>, the k-th passage as text, and metadata
\* with chunk_index k-1, the document's id and total_chunks equal to the
\* number of passages
C13_RecordsMatchPassages ==
    \A u \in DOMAIN u_results : \A i \in 1..Len(u_results[u]) :
        Indexed(u, i) =>
            LET document_id == u_results[u][i].document_id[1]
                passages == Passages[u_files[u][i]]
                records == RecordsOf(document_id)
            IN /\ Len(records) = Len(passages)
               /\ \A k \in 1..Len(records) :
                    /\ records[k].id = <<document_id, "_chunk_", k - 1>>
                    /\ records[k].document = passages[k]
                    /\ records[k].metadata.chunk_index = k - 1
                    /\ records[k].metadata.document_id = document_id
                    /\ records[k].metadata.total_chunks = Len(passages)

\* two documents are indexed, one of them of four passages
C13_Witness ==
    /\ \E i \in 1..Len(u_results[1]) : Indexed(1, i) /\ u_files[1][i] = TxtFour
    /\ Indexed(2, 1)
    /\ Len(store) > 4

\* the finished add_document_chunks calls that returned
Succeeded(call) == call.returned # <<>>

\* C14: every add_document_chunks call that returned, for a document of N
\* passages, called the Embedder N times, inserted one batch, found the
\* collection N records larger after the insert than before it, and returned N
C14_SuccessfulAddCounts ==
    \A c \in 1..Len(add_calls) :
        Succeeded(add_calls[c]) =>
            /\ add_calls[c].embed_calls = add_calls[c].passages
            /\ add_calls[c].inserts = 1
            /\ add_calls[c].count_after = add_calls[c].count_before + add_calls[c].passages
            /\ add_calls[c].returned = <<add_calls[c].passages>>
            /\ Len(RecordsOf(add_calls[c].document_id)) = add_calls[c].passages

\* two calls that ran interleaved both returned: the second was under way
\* when the first ended, it had several passages and it found records in the
\* collection
C14_Witness ==
    /\ Len(add_calls) = 2
    /\ Succeeded(add_calls[1]) /\ Succeeded(add_calls[2])
    /\ add_calls[1].overlapping
    /\ add_calls[2].passages > 1
    /\ add_calls[2].count_before > 0

\* C15: a search that found the collection empty has returned the empty list,
\* without raising, without calling the Embedder and without querying the
\* collection
C15_EmptyStoreSearch ==
    q_count = <<0>> =>
        /\ q_pc = "returned"
        /\ q_chunks = <<>>
        /\ q_embed_calls = 0
        /\ q_query_calls = 0

\* a search found the collection empty while a document was being indexed
C15_Witness ==
    /\ q_count = <<0>>
    /\ q_pc = "returned"
    /\ \E u \in Uploaders : u_pc[u] = "add"

\* the smaller of two numbers
Min2(a, b) == IF a <= b THEN a ELSE b

\* the record of the queried collection that has the given id
SeenRecord(id) == CHOOSE record \in {q_seen[k] : k \in 1..Len(q_seen)} : record.id = id

\* C16: a search that found the collection non-empty and returned has called
\* the Embedder once and queried the collection once; it returns one result
\* per record the collection returned, in that order, min(top_k, records in
\* the collection) of them, each with the id, the text and the document id of
\* the stored record and with the score 1 - distance, the distance being that
\* of the record from the query
C16_ResultsMirrorQuery ==
    (q_pc = "returned" /\ q_count # <<0>>) =>
        /\ q_embed_calls = 1
        /\ q_query_calls = 1
        /\ Len(q_chunks) = Len(q_results.ids)
        /\ Len(q_chunks) <= q_top_k
        /\ Len(q_chunks) = Min2(q_top_k, Len(q_seen))
        /\ \A i \in 1..Len(q_chunks) :
             /\ q_chunks[i].chunk_id = q_results.ids[i]
             /\ \E k \in 1..Len(q_seen) : q_seen[k].id = q_chunks[i].chunk_id
             /\ q_chunks[i].document_id = SeenRecord(q_chunks[i].chunk_id).metadata.document_id
             /\ q_chunks[i].document_id = q_chunks[i].chunk_id[1]
             /\ q_chunks[i].content = SeenRecord(q_chunks[i].chunk_id).document
             /\ q_chunks[i].similarity_score = 1 - q_results.distances[i]
             /\ q_results.distances[i] = Distance(Embedding(q_query), SeenRecord(q_chunks[i].chunk_id).embedding)

\* the scenario: one document of four passages is indexed and a search with
\* top_k = 2 returns two results, which are not the first two records stored
C16_Witness ==
    /\ q_pc = "returned"
    /\ q_top_k = 2
    /\ Len(q_seen) = 4
    /\ \A k \in 1..Len(q_seen) : q_seen[k].metadata.document_id = Uuid4(1)
    /\ Len(q_chunks) = 2
    /\ q_chunks[1].chunk_id # q_seen[1].id
    /\ q_chunks[1].document_id = Uuid4(1)

\* the positions of the results of u that are marked as successes
Successes(u) == {i \in 1..Len(u_results[u]) : u_results[u][i].success}

\* the documents the upload requests have reported as indexed so far
ReportedDocuments ==
    UNION {{u_results[u][i].document_id[1] : i \in {j \in Successes(u) : u_results[u][j].document_id # <<>>}} : u \in DOMAIN u_results}

\* the documents that have a record in the collection
StoredDocuments == {store[k].metadata.document_id : k \in 1..Len(store)}

\* C17: once process_multiple_documents has returned, its results are one per
\* file, in the order of the files (each carries its file's name), each a
\* success or a failure; success_count and failure_count count them and add up
\* to the number of files; every success names a document whose passages, as
\* many as it reports, are in the collection; and the collection holds
\* records of no document other than those reported as successes
C17_BatchReportsEveryFile ==
    /\ StoredDocuments = ReportedDocuments
    /\ \A u \in DOMAIN u_pc :
         u_pc[u] = "returned" =>
            /\ Len(u_results[u]) = Len(u_files[u])
            /\ u_success[u] + u_failure[u] = Len(u_files[u])
            /\ u_success[u] = Cardinality(Successes(u))
            /\ \A i \in 1..Len(u_results[u]) :
                 /\ u_results[u][i].filename = OrUnknown(u_files[u][i].filename)
                 /\ u_results[u][i].success => u_results[u][i].document_id # <<>>
                 /\ Indexed(u, i) =>
                      /\ u_results[u][i].chunks_created = <<Len(RecordsOf(u_results[u][i].document_id[1]))>>
                      /\ u_results[u][i].chunks_created[1] > 0
                 /\ ~u_results[u][i].success => u_results[u][i].error # <<>>

\* a batch has returned whose first file failed in the Embedder and whose
\* second file was indexed
C17_Witness ==
    /\ u_pc[1] = "returned"
    /\ Len(u_results[1]) = 2
    /\ ~u_results[1][1].success
    /\ u_results[1][1].error = <<"Failed to add chunks to vector DB">>
    /\ u_results[1][2].success
    /\ Len(add_calls) > 0 /\ add_calls[1].inserts = 0
    /\ Len(store) > 0

\* the finished add_document_chunks calls in which the Embedder failed
EmbedderFailed(call) == call.returned = <<>> /\ call.inserts = 0

\* C18: a call of add_document_chunks in which the Embedder failed made no
\* second attempt (it called the Embedder at most once per passage, the
\* failing call being its last), left the collection as it was and inserted no
\* record of its document, and its file is not reported as indexed; and in
\* every state each document that has a record in the collection has all of
\* its records there: as many as their total_chunks, with the indices 0..N-1
C18_EmbedderFailureLeavesStore ==
    /\ \A c \in 1..Len(add_calls) :
         EmbedderFailed(add_calls[c]) =>
            /\ add_calls[c].embed_calls >= 1
            /\ add_calls[c].embed_calls <= add_calls[c].passages
            /\ add_calls[c].count_after = add_calls[c].count_before
            /\ RecordsOf(add_calls[c].document_id) = <<>>
            /\ add_calls[c].document_id \notin ReportedDocuments
    /\ \A document_id \in StoredDocuments :
         LET records == RecordsOf(document_id)
         IN \A k \in 1..Len(records) :
              /\ records[k].metadata.total_chunks = Len(records)
              /\ records[k].metadata.chunk_index = k - 1

\* the Embedder failed on a later passage of a document, after it had returned
\* vectors for earlier ones, while another document was in the collection and
\* a search had returned results
C18_Witness ==
    /\ \E c \in 1..Len(add_calls) : EmbedderFailed(add_calls[c]) /\ add_calls[c].embed_calls > 1
    /\ Len(store) > 0
    /\ q_pc = "returned"
    /\ q_chunks # <<>>

====
